---- MODULE Spec2Model ----
(***************************************************************************)
(* Word-level diff engine of the comparison viewer (ArticleDiffViewer.jsx): *)
(* tokenize, myersDiff / buildPath, computeWordDiff, computePatchAwareDiff  *)
(* and the enhanceWithPatches walk.                                         *)
(*                                                                          *)
(* A text is a sequence of one-character strings; a token is a non-empty    *)
(* text; an operation is a record [type, text].                             *)
(***************************************************************************)
EXTENDS Integers, Sequences, FiniteSets, TLC

\* Longest text handed to computeWordDiff in Spec.
MaxLen == 4
\* Size of the largest input handed to computePatchAwareDiff in PatchSpec:
\* the characters of original and corrected plus the number of patches.
MaxInput == 6
\* Longest patch list handed to computePatchAwareDiff in PatchSpec.
MaxPatches == 2

VARIABLES
  original,        \* the original text
  corrected,       \* the corrected text
  patches,         \* the patch list, records [before, after]
  phase,           \* "start" | "walk" | "done"
  changes,         \* enhanceWithPatches: the Map, as a sequence of <<before, after>>
  originalIndex,   \* enhanceWithPatches: cursor into originalTokens
  correctedIndex,  \* enhanceWithPatches: cursor into correctedTokens
  operations,      \* the operations built so far / returned
  iter,            \* enhanceWithPatches: iterations of the while loop so far
  hits,            \* enhanceWithPatches: iterations that ended with foundChange true
  via              \* which function produced `operations`

\* The backend: server.js and the corrections store of database.js.
VARIABLES
  serverReady,     \* server.js: set once initDatabase has resolved
  corrections,     \* the rows of table corrections
  articles,        \* the rows of table articles
  seq,             \* sqlite_sequence of corrections: the largest id ever given
  response,        \* the last HTTP response sent
  posts,           \* the accepted POSTs so far, in order: [id, body]
  deleted          \* the ids a DELETE has removed

\* The corrections list view (the component ArticleDiffViewer of src/src)
VARIABLES
  correctionsList,   \* state corrections: the ids listed, in order
  selectedId,        \* state selectedId; 0 for null
  currentCorrection, \* state currentCorrection: the id of the correction shown; 0 for null
  loading,           \* state loading: the list has not arrived yet
  error,             \* state error: "" | "corrections" | "correction"
  fetches,           \* the calls of fetchCorrection awaiting their response: [n, id]
  clicks             \* the number of clicks on the list so far

diffVars == <<original, corrected, patches, phase, changes, originalIndex,
              correctedIndex, operations, iter, hits, via>>

dbVars == <<serverReady, corrections, articles, seq, response, posts, deleted>>

listVars == <<correctionsList, selectedId, currentCorrection, loading, error,
              fetches, clicks>>

vars == <<original, corrected, patches, phase, changes, originalIndex,
          correctedIndex, operations, iter, hits, via,
          serverReady, corrections, articles, seq, response, posts, deleted,
          correctionsList, selectedId, currentCorrection, loading, error,
          fetches, clicks>>

(***************************************************************************)
(* Characters and texts                                                     *)
(***************************************************************************)
\* One word character, one whitespace character, one boundary punctuation
\* character: the three classes the split regex distinguishes.
Chars == {"a", " ", "."}

\* \s of the split regex; also what String.prototype.trim strips.
IsSpace(c) == c = " "

\* [.,!?;:"()–—\-\[\]{}] of the split regex (one representative).
IsPunct(c) == c = "."

TextsUpTo(n) == UNION {[1..k -> Chars] : k \in 0..n}

\* Array.prototype.join('') over an array of texts.
RECURSIVE Join(_)
Join(ts) == IF ts = <<>> THEN <<>> ELSE Head(ts) \o Join(Tail(ts))

\* Array.prototype.slice(from, to): indices are 0-based and clamped.
Slice(arr, from, to) ==
  LET lo == IF from > Len(arr) THEN Len(arr) ELSE from
      hi == IF to > Len(arr) THEN Len(arr) ELSE to
  IN IF hi <= lo THEN <<>> ELSE SubSeq(arr, lo + 1, hi)

\* The value of arr[i] for an index outside the array.
UndefinedTok == <<"undefined">>

\* A text that is absent: null or undefined.
Absent == <<"null">>

\* arr[i], 0-based.
At(arr, i) == IF i >= 0 /\ i < Len(arr) THEN arr[i + 1] ELSE UndefinedTok

RECURSIVE TrimLeft(_)
TrimLeft(s) == IF s # <<>> /\ IsSpace(Head(s)) THEN TrimLeft(Tail(s)) ELSE s

RECURSIVE TrimRight(_)
TrimRight(s) ==
  IF s # <<>> /\ IsSpace(s[Len(s)]) THEN TrimRight(SubSeq(s, 1, Len(s) - 1)) ELSE s

\* String.prototype.trim
Trim(s) == TrimRight(TrimLeft(s))

(***************************************************************************)
(* tokenize                                                                 *)
(***************************************************************************)
\* \s for \s+: the run ends with its first character.
SpaceRunEndLazy(s, i) == i

\* End (1-based, inclusive) of the whitespace run starting at i: \s+ is greedy.
RECURSIVE SpaceRunEnd(_, _)
SpaceRunEnd(s, i) ==
  IF i < Len(s) /\ IsSpace(s[i + 1]) THEN SpaceRunEnd(s, i + 1) ELSE i

\* text.split(/(\s+|[punct])/) without the capture group: separators dropped.
RECURSIVE SplitDropping(_, _, _)
SplitDropping(s, i, cur) ==
  IF i > Len(s) THEN <<cur>>
  ELSE IF IsSpace(s[i])
    THEN <<cur>> \o SplitDropping(s, SpaceRunEnd(s, i) + 1, <<>>)
  ELSE IF IsPunct(s[i])
    THEN <<cur>> \o SplitDropping(s, i + 1, <<>>)
  ELSE SplitDropping(s, i + 1, Append(cur, s[i]))

\* text.split(/(\s+|[punct])/): the pieces between separator matches, each
\* followed by the captured separator; empty pieces are kept by split.
RECURSIVE SplitCapturing(_, _, _)
SplitCapturing(s, i, cur) ==
  IF i > Len(s) THEN <<cur>>
  ELSE IF IsSpace(s[i])
    THEN LET j == SpaceRunEnd(s, i)
         IN <<cur, SubSeq(s, i, j)>> \o SplitCapturing(s, j + 1, <<>>)
  ELSE IF IsPunct(s[i])
    THEN <<cur, <<s[i]>>>> \o SplitCapturing(s, i + 1, <<>>)
  ELSE SplitCapturing(s, i + 1, Append(cur, s[i]))

\* The filter dropping whitespace tokens as well as empty ones.
NonBlank(t) == Len(t) > 0 /\ ~IsSpace(t[1])

\* filter(token => token.length > 0)
NonEmpty(t) == Len(t) > 0

TokenizeDroppingSeparators(text) ==
  IF text = <<>> THEN <<>> ELSE SelectSeq(SplitDropping(text, 1, <<>>), NonEmpty)

\* tokenize: if (!text) return []; split(...).filter(token => token.length > 0)
Tokenize(text) ==
  IF text = Absent \/ text = <<>>
    THEN <<>>
    ELSE SelectSeq(SplitCapturing(text, 1, <<>>), NonEmpty)

(***************************************************************************)
(* myersDiff: the forward search                                            *)
(***************************************************************************)
\* undefined (a key of v never set) and NaN (undefined + 1, undefined - k):
\* every comparison with it is false.  It is a number far outside the range
\* of the coordinates, which stay within a few times the text length of 0.
NaN == 0 - 1000000

\* v[k] of the object v
Get(v, k) == IF k \in DOMAIN v THEN v[k] ELSE NaN

\* v[k] = x
Put(v, k, x) == [i \in (DOMAIN v) \cup {k} |-> IF i = k THEN x ELSE v[i]]

Lt(p, q) == p # NaN /\ q # NaN /\ p < q
Gt(p, q) == p # NaN /\ q # NaN /\ p > q
Ge(p, q) == p # NaN /\ q # NaN /\ p >= q
Plus1(p) == IF p = NaN THEN NaN ELSE p + 1
Minus(p, k) == IF p = NaN THEN NaN ELSE p - k

\* The preference with a tie going to diagonal k + 1.
FromAboveOnTie(v, d, k) == k = -d \/ (k # d /\ ~Gt(Get(v, k - 1), Get(v, k + 1)))

\* The preference with the comparison turned around.
FromAboveFlipped(v, d, k) == k = -d \/ (k # d /\ Gt(Get(v, k - 1), Get(v, k + 1)))

\* k === -d || (k !== d && v[k - 1] < v[k + 1]): come from diagonal k + 1.
FromAbove(v, d, k) == k = -d \/ (k # d /\ Lt(Get(v, k - 1), Get(v, k + 1)))

\* The snake loop with the comparison of the two tokens left out.
RECURSIVE SnakeBlind(_, _, _, _)
SnakeBlind(a, b, x, y) ==
  IF Lt(x, Len(a)) /\ Lt(y, Len(b))
    THEN SnakeBlind(a, b, x + 1, y + 1)
    ELSE x

\* The diagonal is never followed.
SnakeStuck(a, b, x, y) == x

\* while (x < N && y < M && a[x] === b[y]) { x++; y++; } : the x it ends with.
RECURSIVE Snake(_, _, _, _)
Snake(a, b, x, y) ==
  IF Lt(x, Len(a)) /\ Lt(y, Len(b)) /\ At(a, x) = At(b, y)
    THEN Snake(a, b, x + 1, y + 1)
    ELSE x

\* The body of the inner loop with the test on y alone.
ForwardStepTestsYOnly(a, b, v, d, k) ==
  LET x0 == IF FromAbove(v, d, k) THEN Get(v, k + 1) ELSE Plus1(Get(v, k - 1))
      y0 == Minus(x0, k)
      x  == Snake(a, b, x0, y0)
      y  == Minus(x, k)
  IN [x |-> x, y |-> y, v |-> Put(v, k, x), reached |-> Ge(y, Len(b))]

\* The body of the inner loop for diagonal k of round d.
ForwardStep(a, b, v, d, k) ==
  LET x0 == IF FromAbove(v, d, k) THEN Get(v, k + 1) ELSE Plus1(Get(v, k - 1))
      y0 == Minus(x0, k)
      x  == Snake(a, b, x0, y0)
      y  == Minus(x, k)
  IN [x |-> x, y |-> y, v |-> Put(v, k, x),
      reached |-> Ge(x, Len(a)) /\ Ge(y, Len(b))]

RECURSIVE ForwardRound(_, _, _, _, _)
RECURSIVE ForwardInner(_, _, _, _, _, _)
\* for (let d ...; d <= MAX; d++) { trace.push({ ...v }); ... }
ForwardRound(a, b, v, trace, d) ==
  IF d > Len(a) + Len(b)
    THEN [found |-> FALSE, d |-> d, k |-> 0, x |-> NaN, y |-> NaN, v |-> v, trace |-> trace]
    ELSE ForwardInner(a, b, v, Append(trace, v), d, -d)

\* for (let k = -d; k <= d; k += 2) { ... if (x >= N && y >= M) return ... }
ForwardInner(a, b, v, trace, d, k) ==
  IF k > d THEN ForwardRound(a, b, v, trace, d + 1)
  ELSE LET s == ForwardStep(a, b, v, d, k)
       IN IF s.reached
            THEN [found |-> TRUE, d |-> d, k |-> k, x |-> s.x, y |-> s.y, v |-> s.v,
                  trace |-> trace]
            ELSE ForwardInner(a, b, s.v, trace, d, k + 2)

\* v = {}; trace = []; v[1] = 0; the two loops.
ForwardSearch(a, b) == ForwardRound(a, b, [i \in {1} |-> 0], <<>>, 0)

(***************************************************************************)
(* buildPath                                                                *)
(***************************************************************************)
Op(type, text) == [type |-> type, text |-> text]

\* while (x > prevX && y > prevY) { unshift equal a[x-1]; x--; y--; }
RECURSIVE EqualRun(_, _, _, _, _, _)
EqualRun(a, x, y, prevX, prevY, ops) ==
  IF Gt(x, prevX) /\ Gt(y, prevY)
    THEN EqualRun(a, x - 1, y - 1, prevX, prevY, <<Op("equal", At(a, x - 1))>> \o ops)
    ELSE [x |-> x, y |-> y, ops |-> ops]

\* The body of the loop with x left as it is after a delete.
BackStepDeleteKeepsX(a, b, trace, D, x, y, ops) ==
  LET v     == trace[D + 1]
      k     == x - y
      prevK == IF FromAbove(v, D, k) THEN k + 1 ELSE k - 1
      prevX == Get(v, prevK)
      prevY == Minus(prevX, prevK)
      e     == EqualRun(a, x, y, prevX, prevY, ops)
  IN IF D > 0
       THEN IF Gt(e.x, prevX)
              THEN [x |-> e.x, y |-> e.y,
                    ops |-> <<Op("delete", At(a, e.x - 1))>> \o e.ops]
              ELSE [x |-> e.x, y |-> e.y - 1,
                    ops |-> <<Op("insert", At(b, e.y - 1))>> \o e.ops]
       ELSE e

\* The body of the loop with push for unshift on the delete and the insert.
BackStepPushes(a, b, trace, D, x, y, ops) ==
  LET v     == trace[D + 1]
      k     == x - y
      prevK == IF FromAbove(v, D, k) THEN k + 1 ELSE k - 1
      prevX == Get(v, prevK)
      prevY == Minus(prevX, prevK)
      e     == EqualRun(a, x, y, prevX, prevY, ops)
  IN IF D > 0
       THEN IF Gt(e.x, prevX)
              THEN [x |-> e.x - 1, y |-> e.y,
                    ops |-> e.ops \o <<Op("delete", At(a, e.x - 1))>>]
              ELSE [x |-> e.x, y |-> e.y - 1,
                    ops |-> e.ops \o <<Op("insert", At(b, e.y - 1))>>]
       ELSE e

\* The body of the loop with the delete move taken but no operation pushed.
BackStepDropsDelete(a, b, trace, D, x, y, ops) ==
  LET v     == trace[D + 1]
      k     == x - y
      prevK == IF FromAbove(v, D, k) THEN k + 1 ELSE k - 1
      prevX == Get(v, prevK)
      prevY == Minus(prevX, prevK)
      e     == EqualRun(a, x, y, prevX, prevY, ops)
  IN IF D > 0
       THEN IF Gt(e.x, prevX)
              THEN [x |-> e.x - 1, y |-> e.y, ops |-> e.ops]
              ELSE [x |-> e.x, y |-> e.y - 1,
                    ops |-> <<Op("insert", At(b, e.y - 1))>> \o e.ops]
       ELSE e

\* The body of the loop with the inserted token read at b[y] for b[y - 1].
BackStepInsertOffByOne(a, b, trace, D, x, y, ops) ==
  LET v     == trace[D + 1]
      k     == x - y
      prevK == IF FromAbove(v, D, k) THEN k + 1 ELSE k - 1
      prevX == Get(v, prevK)
      prevY == Minus(prevX, prevK)
      e     == EqualRun(a, x, y, prevX, prevY, ops)
  IN IF D > 0
       THEN IF Gt(e.x, prevX)
              THEN [x |-> e.x - 1, y |-> e.y,
                    ops |-> <<Op("delete", At(a, e.x - 1))>> \o e.ops]
              ELSE [x |-> e.x, y |-> e.y - 1,
                    ops |-> <<Op("insert", At(b, e.y))>> \o e.ops]
       ELSE e

\* The body of the loop of buildPath for one D.
BackStep(a, b, trace, D, x, y, ops) ==
  LET v     == trace[D + 1]
      k     == x - y
      prevK == IF FromAbove(v, D, k) THEN k + 1 ELSE k - 1
      prevX == Get(v, prevK)
      prevY == Minus(prevX, prevK)
      e     == EqualRun(a, x, y, prevX, prevY, ops)
  IN IF D > 0
       THEN IF Gt(e.x, prevX)
              THEN [x |-> e.x - 1, y |-> e.y,
                    ops |-> <<Op("delete", At(a, e.x - 1))>> \o e.ops]
              ELSE [x |-> e.x, y |-> e.y - 1,
                    ops |-> <<Op("insert", At(b, e.y - 1))>> \o e.ops]
       ELSE e

\* for (let D = d; D >= 0; D--) { ... }
RECURSIVE BuildFrom(_, _, _, _, _, _, _)
BuildFrom(a, b, trace, D, x, y, ops) ==
  IF D < 0 THEN [x |-> x, y |-> y, ops |-> ops]
  ELSE LET s == BackStep(a, b, trace, D, x, y, ops)
       IN BuildFrom(a, b, trace, D - 1, s.x, s.y, s.ops)

BuildPath(a, b, trace, d) == BuildFrom(a, b, trace, d, Len(a), Len(b), <<>>).ops

\* myersDiff(a, b): the search, then buildPath; return [] after the loop.
MyersDiff(a, b) ==
  LET r == ForwardSearch(a, b)
  IN IF r.found THEN BuildPath(a, b, r.trace, r.d) ELSE <<>>

\* computeWordDiff(original, corrected)
ComputeWordDiff(o, c) == MyersDiff(Tokenize(o), Tokenize(c))

(***************************************************************************)
(* The renderer's two views (DiffDisplayOriginal, DiffDisplayCorrected)     *)
(***************************************************************************)
ShownInOriginal(op) == op.type \in {"equal", "delete"}
ShownInCorrected(op) == op.type \in {"equal", "insert"}

Texts(ops) == [i \in 1..Len(ops) |-> ops[i].text]

\* The text DiffDisplayOriginal renders: equal and delete spans, in order.
OriginalView(ops) == Join(Texts(SelectSeq(ops, ShownInOriginal)))

\* The text DiffDisplayCorrected renders: equal and insert spans, in order.
CorrectedView(ops) == Join(Texts(SelectSeq(ops, ShownInCorrected)))

(***************************************************************************)
(* computePatchAwareDiff: the Map of changes                                *)
(***************************************************************************)
HasKey(m, key) == \E i \in 1..Len(m) : m[i][1] = key

\* A set that deletes the key first: an existing key moves to the end.
MapSetMovesLast(m, key, val) ==
  Append(SelectSeq(m, LAMBDA e : e[1] # key), <<key, val>>)

\* Map.prototype.set: a new key goes last, an existing key keeps its place.
MapSet(m, key, val) ==
  IF HasKey(m, key)
    THEN [i \in 1..Len(m) |-> IF m[i][1] = key THEN <<key, val>> ELSE m[i]]
    ELSE Append(m, <<key, val>>)

\* patches.forEach(patch => { before = trim; after = trim;
\*                            if (before !== after) changes.set(before, after) })
RECURSIVE BuildChanges(_, _)
BuildChanges(ps, m) ==
  IF ps = <<>> THEN m
  ELSE LET before == Trim(Head(ps).before)
           after  == Trim(Head(ps).after)
       IN BuildChanges(Tail(ps),
                       IF before # after THEN MapSet(m, before, after) ELSE m)

(***************************************************************************)
(* enhanceWithPatches: one iteration of the while loop                      *)
(***************************************************************************)
\* i + pat.length <= toks.length && toks.slice(i, i + pat.length).join('') === pat.join('')
StartsAt(toks, i, pat) ==
  /\ i + Len(pat) <= Len(toks)
  /\ Join(Slice(toks, i, i + Len(pat))) = Join(pat)

\* i >= toks.length || toks.slice(i, i + pat.length).join('') !== pat.join('')
AbsentAt(toks, i, pat) ==
  \/ i >= Len(toks)
  \/ Join(Slice(toks, i, i + Len(pat))) # Join(pat)

OpsOf(type, toks) == [i \in 1..Len(toks) |-> Op(type, toks[i])]

NoMatch(oi, ci) == [found |-> FALSE, kind |-> "none", ops |-> <<>>, oi |-> oi, ci |-> ci]

\* The body for one entry with a full substitution moving the original cursor
\* by the length of afterTokens.
TryEntryFullAdvancesByAfter(oT, cT, oi, ci, entry) ==
  LET beforeTokens == Tokenize(entry[1])
      afterTokens  == Tokenize(entry[2])
  IN IF StartsAt(oT, oi, beforeTokens) /\ StartsAt(cT, ci, afterTokens)
       THEN [found |-> TRUE, kind |-> "full",
             ops |-> OpsOf("delete", beforeTokens) \o OpsOf("insert", afterTokens),
             oi |-> oi + Len(afterTokens), ci |-> ci + Len(afterTokens)]
     ELSE IF StartsAt(cT, ci, afterTokens) /\ AbsentAt(oT, oi, afterTokens)
       THEN [found |-> TRUE, kind |-> "insert",
             ops |-> OpsOf("insert", afterTokens),
             oi |-> oi, ci |-> ci + Len(afterTokens)]
     ELSE IF StartsAt(oT, oi, beforeTokens) /\ AbsentAt(cT, ci, beforeTokens)
       THEN [found |-> TRUE, kind |-> "delete",
             ops |-> OpsOf("delete", beforeTokens),
             oi |-> oi + Len(beforeTokens), ci |-> ci]
     ELSE NoMatch(oi, ci)

\* The body for one entry with the insertion-only check ahead of the full
\* substitution check.
TryEntryInsertionFirst(oT, cT, oi, ci, entry) ==
  LET beforeTokens == Tokenize(entry[1])
      afterTokens  == Tokenize(entry[2])
  IN IF StartsAt(cT, ci, afterTokens) /\ AbsentAt(oT, oi, afterTokens)
       THEN [found |-> TRUE, kind |-> "insert",
             ops |-> OpsOf("insert", afterTokens),
             oi |-> oi, ci |-> ci + Len(afterTokens)]
     ELSE IF StartsAt(oT, oi, beforeTokens) /\ StartsAt(cT, ci, afterTokens)
       THEN [found |-> TRUE, kind |-> "full",
             ops |-> OpsOf("delete", beforeTokens) \o OpsOf("insert", afterTokens),
             oi |-> oi + Len(beforeTokens), ci |-> ci + Len(afterTokens)]
     ELSE IF StartsAt(oT, oi, beforeTokens) /\ AbsentAt(cT, ci, beforeTokens)
       THEN [found |-> TRUE, kind |-> "delete",
             ops |-> OpsOf("delete", beforeTokens),
             oi |-> oi + Len(beforeTokens), ci |-> ci]
     ELSE NoMatch(oi, ci)

\* The body of `for (const [before, after] of changes.entries())` for one entry:
\* full substitution, else insertion only, else deletion only.
TryEntry(oT, cT, oi, ci, entry) ==
  LET beforeTokens == Tokenize(entry[1])
      afterTokens  == Tokenize(entry[2])
  IN IF StartsAt(oT, oi, beforeTokens) /\ StartsAt(cT, ci, afterTokens)
       THEN [found |-> TRUE, kind |-> "full",
             ops |-> OpsOf("delete", beforeTokens) \o OpsOf("insert", afterTokens),
             oi |-> oi + Len(beforeTokens), ci |-> ci + Len(afterTokens)]
     ELSE IF StartsAt(cT, ci, afterTokens) /\ AbsentAt(oT, oi, afterTokens)
       THEN [found |-> TRUE, kind |-> "insert",
             ops |-> OpsOf("insert", afterTokens),
             oi |-> oi, ci |-> ci + Len(afterTokens)]
     ELSE IF StartsAt(oT, oi, beforeTokens) /\ AbsentAt(cT, ci, beforeTokens)
       THEN [found |-> TRUE, kind |-> "delete",
             ops |-> OpsOf("delete", beforeTokens),
             oi |-> oi + Len(beforeTokens), ci |-> ci]
     ELSE NoMatch(oi, ci)

\* The for loop without the break: the last entry that matches is the one taken.
RECURSIVE TryChangesLastWins(_, _, _, _, _, _)
TryChangesLastWins(oT, cT, oi, ci, chg, i) ==
  IF i > Len(chg) THEN NoMatch(oi, ci)
  ELSE LET rest == TryChangesLastWins(oT, cT, oi, ci, chg, i + 1)
       IN IF rest.found THEN rest ELSE TryEntry(oT, cT, oi, ci, chg[i])

\* The for loop over the entries, from entry i on: break at the first match.
RECURSIVE TryChanges(_, _, _, _, _, _)
TryChanges(oT, cT, oi, ci, chg, i) ==
  IF i > Len(chg) THEN NoMatch(oi, ci)
  ELSE LET r == TryEntry(oT, cT, oi, ci, chg[i])
       IN IF r.found THEN r ELSE TryChanges(oT, cT, oi, ci, chg, i + 1)

\* The plain comparison with the insert branch advancing both cursors.
PlainStepInsertAdvancesBoth(oT, cT, oi, ci) ==
  LET originalToken  == At(oT, oi)
      correctedToken == At(cT, ci)
  IN IF originalToken = correctedToken /\ originalToken # UndefinedTok
       THEN [ops |-> <<Op("equal", originalToken)>>, oi |-> oi + 1, ci |-> ci + 1]
     ELSE IF oi >= Len(oT)
       THEN [ops |-> <<Op("insert", correctedToken)>>, oi |-> oi + 1, ci |-> ci + 1]
     ELSE IF ci >= Len(cT)
       THEN [ops |-> <<Op("delete", originalToken)>>, oi |-> oi + 1, ci |-> ci]
     ELSE [ops |-> <<Op("delete", originalToken), Op("insert", correctedToken)>>,
           oi |-> oi + 1, ci |-> ci + 1]

\* The plain comparison with the last branch pushing the delete only.
PlainStepDropsInsert(oT, cT, oi, ci) ==
  LET originalToken  == At(oT, oi)
      correctedToken == At(cT, ci)
  IN IF originalToken = correctedToken /\ originalToken # UndefinedTok
       THEN [ops |-> <<Op("equal", originalToken)>>, oi |-> oi + 1, ci |-> ci + 1]
     ELSE IF oi >= Len(oT)
       THEN [ops |-> <<Op("insert", correctedToken)>>, oi |-> oi, ci |-> ci + 1]
     ELSE IF ci >= Len(cT)
       THEN [ops |-> <<Op("delete", originalToken)>>, oi |-> oi + 1, ci |-> ci]
     ELSE [ops |-> <<Op("delete", originalToken)>>, oi |-> oi + 1, ci |-> ci + 1]

\* The plain comparison with the last branch pushing the insert first.
PlainStepInsertBeforeDelete(oT, cT, oi, ci) ==
  LET originalToken  == At(oT, oi)
      correctedToken == At(cT, ci)
  IN IF originalToken = correctedToken /\ originalToken # UndefinedTok
       THEN [ops |-> <<Op("equal", originalToken)>>, oi |-> oi + 1, ci |-> ci + 1]
     ELSE IF oi >= Len(oT)
       THEN [ops |-> <<Op("insert", correctedToken)>>, oi |-> oi, ci |-> ci + 1]
     ELSE IF ci >= Len(cT)
       THEN [ops |-> <<Op("delete", originalToken)>>, oi |-> oi + 1, ci |-> ci]
     ELSE [ops |-> <<Op("insert", correctedToken), Op("delete", originalToken)>>,
           oi |-> oi + 1, ci |-> ci + 1]

\* if (!foundChange) { ... }: plain comparison of the two current tokens.
PlainStep(oT, cT, oi, ci) ==
  LET originalToken  == At(oT, oi)
      correctedToken == At(cT, ci)
  IN IF originalToken = correctedToken /\ originalToken # UndefinedTok
       THEN [ops |-> <<Op("equal", originalToken)>>, oi |-> oi + 1, ci |-> ci + 1]
     ELSE IF oi >= Len(oT)
       THEN [ops |-> <<Op("insert", correctedToken)>>, oi |-> oi, ci |-> ci + 1]
     ELSE IF ci >= Len(cT)
       THEN [ops |-> <<Op("delete", originalToken)>>, oi |-> oi + 1, ci |-> ci]
     ELSE [ops |-> <<Op("delete", originalToken), Op("insert", correctedToken)>>,
           oi |-> oi + 1, ci |-> ci + 1]

\* One iteration with a patch branch that pushes but leaves the cursors.
WalkStepStaysOnHit(oT, cT, oi, ci, chg) ==
  LET r == TryChanges(oT, cT, oi, ci, chg, 1)
  IN IF r.found THEN [found |-> TRUE, ops |-> r.ops, oi |-> oi, ci |-> ci]
     ELSE LET q == PlainStep(oT, cT, oi, ci)
          IN [found |-> FALSE, ops |-> q.ops, oi |-> q.oi, ci |-> q.ci]

\* One iteration of the while loop: what it pushes and where the cursors go.
WalkStep(oT, cT, oi, ci, chg) ==
  LET r == TryChanges(oT, cT, oi, ci, chg, 1)
  IN IF r.found THEN [found |-> TRUE, ops |-> r.ops, oi |-> r.oi, ci |-> r.ci]
     ELSE LET q == PlainStep(oT, cT, oi, ci)
          IN [found |-> FALSE, ops |-> q.ops, oi |-> q.oi, ci |-> q.ci]

\* while (correctedIndex < correctedTokens.length || originalIndex < originalTokens.length)
WalkContinues(oT, cT, oi, ci) == ci < Len(cT) \/ oi < Len(oT)

(***************************************************************************)
(* Inputs                                                                   *)
(***************************************************************************)
Patch(before, after) == [before |-> before, after |-> after]

\* The patches a list is drawn from: a substitution, a deletion whose before
\* trims to the same key, an insertion (empty before), a patch that is a
\* no-op once trimmed, and a two-token before.
PatchPool ==
  { Patch(<<"a">>, <<".">>),
    Patch(<<" ", "a">>, <<>>),
    Patch(<<>>, <<".">>),
    Patch(<<"a", " ">>, <<" ", "a">>),
    Patch(<<"a", ".">>, <<"a">>) }

PatchLists == UNION {[1..n -> PatchPool] : n \in 0..MaxPatches}

\* The pairs of texts of at most n characters together.
TextPairsUpTo(n) ==
  UNION {[1..i -> Chars] \X [1..j -> Chars] : <<i, j>> \in {q \in (0..n) \X (0..n) : q[1] + q[2] <= n}}

(***************************************************************************)
(* The backend: JSON values, request bodies and the tables of database.js   *)
(***************************************************************************)
\* A JSON value of a request body: its type and what it holds.
Value(t, v) == [t |-> t, v |-> v]

Undefined == Value("undefined", "")

Str(s) == Value("string", s)

Arr(s) == Value("array", s)

\* An article object: url ("" when it has none) and body.  present is FALSE
\* for a field that is missing or falsy in the request.
Article(url, body) == [present |-> TRUE, url |-> url, body |-> body]

MissingArticle == [present |-> FALSE, url |-> "", body |-> Undefined]

\* {}
EmptyObject == Article("", Undefined)

\* JSON.parse of a string: the strings that are JSON text and the values
\* they encode; it throws on every other string.
JsonParse ==
  [s \in {"[\"p1\"]", "[\"p2\"]"} |-> IF s = "[\"p1\"]" THEN Arr("p1") ELSE Arr("p2")]

\* JSON.stringify(value) as stored in a TEXT column, and JSON.parse of it.
Stringify(value) == <<"json", value>>

ParseColumn(text) == text[2]

\* A request body of POST /api/corrections.
Request(o, c, applied, unapplied) ==
  [original_article |-> o, corrected_article |-> c,
   applied |-> applied, unapplied |-> unapplied]

\* The bodies a POST is drawn from: the shape of the README; bodies given as
\* JSON text; no url and plain text bodies; applied and unapplied that are
\* not arrays; no articles at all.
RequestPool ==
  { Request(Article("u1", Arr("p1")), Article("u1", Arr("p2")), Arr("patch"), Arr("")),
    Request(Article("u2", Str("[\"p1\"]")), Article("u2", Str("[\"p2\"]")), Arr(""), Arr("patch")),
    Request(Article("", Str("p1")), Article("", Str("p2")), Arr("patch"), Arr("")),
    Request(Article("u1", Arr("p1")), Article("u1", Arr("p1")), Str("patch"), Undefined),
    Request(MissingArticle, MissingArticle, Arr(""), Arr("")) }

\* data.original_article || {}
OrEmptyObject(a) == IF a.present THEN a ELSE EmptyObject

\* if (article.body && typeof article.body === 'string')
\*   try { article.body = JSON.parse(article.body) } catch (e) { warn }
ParseBody(a) ==
  IF a.body.t = "string" /\ a.body.v # "" /\ a.body.v \in DOMAIN JsonParse
    THEN [a EXCEPT !.body = JsonParse[a.body.v]]
    ELSE a

\* Array.isArray(x) ? x : []
ArrayOrEmpty(x) == IF x.t = "array" THEN x ELSE Arr("")

MaxOf(S) == IF S = {} THEN 0 ELSE CHOOSE x \in S : \A y \in S : y <= x

\* SELECT MAX(id) FROM corrections
SelectMaxId(rows) == MaxOf({r.id : r \in rows})

\* A rowid one above the largest in the table: what INTEGER PRIMARY KEY
\* gives without AUTOINCREMENT.
NextRowIdReusing(rows, s) == SelectMaxId(rows) + 1

\* id INTEGER PRIMARY KEY AUTOINCREMENT: one above the largest id ever given.
NextRowId(rows, s) == (IF s > SelectMaxId(rows) THEN s ELSE SelectMaxId(rows)) + 1

\* The next run number taken from the number of rows with the url.
NextRunNumberCounting(rows, url) == Cardinality({q \in rows : q.article_url = url}) + 1

\* SELECT COALESCE(MAX(run_number), 0) + 1 FROM corrections WHERE article_url = ?
NextRunNumber(rows, url) == MaxOf({r.run_number : r \in {q \in rows : q.article_url = url}}) + 1

\* INSERT INTO articles ... or UPDATE articles SET ... WHERE url = ?
UpsertArticle(arts, url, o) ==
  {a \in arts : a.url # url} \cup {[url |-> url, original_article |-> Stringify(o)]}

\* saveCorrection(data): the tables after it and the id it returns.  A row
\* with no url has article_url "" and run_number 0 for NULL.
SaveCorrection(rows, arts, s, data) ==
  LET originalArticle  == ParseBody(OrEmptyObject(data.original_article))
      correctedArticle == ParseBody(OrEmptyObject(data.corrected_article))
      articleUrl       == originalArticle.url
      row == [id               |-> NextRowId(rows, s),
              article_url      |-> articleUrl,
              run_number       |-> IF articleUrl # "" THEN NextRunNumber(rows, articleUrl) ELSE 0,
              original_article |-> Stringify(originalArticle),
              corrected_article |-> Stringify(correctedArticle),
              applied          |-> Stringify(ArrayOrEmpty(data.applied)),
              unapplied        |-> Stringify(ArrayOrEmpty(data.unapplied))]
      rows2 == rows \cup {row}
  IN [corrections |-> rows2,
      articles    |-> IF articleUrl # "" THEN UpsertArticle(arts, articleUrl, originalArticle) ELSE arts,
      seq         |-> row.id,
      id          |-> SelectMaxId(rows2)]

\* What a handler sends when it sends no correction.
NoRecord ==
  [found |-> FALSE, id |-> 0,
   original_article |-> MissingArticle, corrected_article |-> MissingArticle,
   applied |-> Undefined, unapplied |-> Undefined]

\* getCorrection(id): null when no row has the id.
GetCorrection(rows, id) ==
  IF \A r \in rows : r.id # id THEN NoRecord
  ELSE LET row == CHOOSE r \in rows : r.id = id
       IN [found |-> TRUE, id |-> row.id,
           original_article  |-> ParseColumn(row.original_article),
           corrected_article |-> ParseColumn(row.corrected_article),
           applied           |-> ParseColumn(row.applied),
           unapplied         |-> ParseColumn(row.unapplied)]

\* removeCorrection(id): false when no row has the id, else the row is deleted.
RemoveCorrection(rows, id) ==
  IF \A r \in rows : r.id # id
    THEN [removed |-> FALSE, corrections |-> rows]
    ELSE [removed |-> TRUE, corrections |-> {r \in rows : r.id # id}]

Response(op, status, id, record) ==
  [op |-> op, status |-> status, id |-> id, record |-> record]

\* Before initDatabase has resolved and before any request.
DbIdle ==
  /\ serverReady = FALSE
  /\ corrections = {}
  /\ articles = {}
  /\ seq = 0
  /\ response = Response("none", 0, 0, NoRecord)
  /\ posts = <<>>
  /\ deleted = {}

(***************************************************************************)
(* The corrections list view: values                                        *)
(***************************************************************************)
\* The component as mounted: useState([]), useState(null), useState(null),
\* useState(true), useState(''); fetchCorrections has been called.
ListIdle ==
  /\ correctionsList = <<>>
  /\ selectedId = 0
  /\ currentCorrection = 0
  /\ loading = TRUE
  /\ error = ""
  /\ fetches = {}
  /\ clicks = 0

\* useEffect(() => { if (selectedId) fetchCorrection(selectedId) }, [selectedId]):
\* the fetches outstanding once the effect has run for a new selectedId.
EffectSelectedId(fs, id, n) == IF id # 0 THEN fs \cup {[n |-> n, id |-> id]} ELSE fs

(***************************************************************************)
(* Spec: computeWordDiff on every pair of texts                             *)
(***************************************************************************)
Idle ==
  /\ phase = "start"
  /\ changes = <<>>
  /\ originalIndex = 0
  /\ correctedIndex = 0
  /\ operations = <<>>
  /\ iter = 0
  /\ hits = 0
  /\ via = "none"
  /\ DbIdle
  /\ ListIdle

Init ==
  /\ original \in TextsUpTo(MaxLen)
  /\ corrected \in TextsUpTo(MaxLen)
  /\ patches = <<>>
  /\ Idle

\* computeWordDiff(original, corrected) is called and returns.
CallComputeWordDiff ==
  /\ phase = "start"
  /\ operations' = ComputeWordDiff(original, corrected)
  /\ phase' = "done"
  /\ via' = "computeWordDiff"
  /\ UNCHANGED <<original, corrected, patches, changes, originalIndex,
                 correctedIndex, iter, hits>>
  /\ UNCHANGED <<dbVars, listVars>>

Next == CallComputeWordDiff

Spec == Init /\ [][Next]_vars

(***************************************************************************)
(* SearchSpec: computeWordDiff on the texts whose search is replayed round  *)
(* by round against a reference                                             *)
(***************************************************************************)
MaxSearchLen == 3

SearchInit ==
  /\ original \in TextsUpTo(MaxSearchLen)
  /\ corrected \in TextsUpTo(MaxSearchLen)
  /\ patches = <<>>
  /\ Idle

SearchSpec == SearchInit /\ [][Next]_vars

(***************************************************************************)
(* DegenerateSpec: computeWordDiff with a text that is absent or empty      *)
(***************************************************************************)
TextsOrAbsent == TextsUpTo(MaxLen) \cup {Absent}

DegenerateInit ==
  /\ original \in TextsOrAbsent
  /\ corrected \in TextsOrAbsent
  /\ original \in {Absent, <<>>} \/ corrected \in {Absent, <<>>}
  /\ patches = <<>>
  /\ Idle

DegenerateSpec == DegenerateInit /\ [][Next]_vars

(***************************************************************************)
(* PatchSpec: computePatchAwareDiff, the walk one iteration at a time       *)
(***************************************************************************)
PatchInit ==
  /\ patches \in PatchLists
  /\ \E p \in TextPairsUpTo(MaxInput - Len(patches)) :
       original = p[1] /\ corrected = p[2]
  /\ Idle

\* if (!patches || patches.length === 0) return baseOps;
ReturnBaseDiff ==
  /\ phase = "start"
  /\ Len(patches) = 0
  /\ operations' = ComputeWordDiff(original, corrected)
  /\ phase' = "done"
  /\ via' = "computeWordDiff"
  /\ UNCHANGED <<original, corrected, patches, changes, originalIndex,
                 correctedIndex, iter, hits>>
  /\ UNCHANGED <<dbVars, listVars>>

\* patch.before.trim() and patch.after.trim() need both fields to be strings.
HasBothTexts(patch) == patch.before # Absent /\ patch.after # Absent

\* The Map is built and enhanceWithPatches is entered.
EnterEnhance ==
  /\ phase = "start"
  /\ Len(patches) # 0
  /\ \A i \in 1..Len(patches) : HasBothTexts(patches[i])
  /\ changes' = BuildChanges(patches, <<>>)
  /\ operations' = <<>>
  /\ originalIndex' = 0
  /\ correctedIndex' = 0
  /\ iter' = 0
  /\ hits' = 0
  /\ phase' = "walk"
  /\ via' = "enhanceWithPatches"
  /\ UNCHANGED <<original, corrected, patches>>
  /\ UNCHANGED <<dbVars, listVars>>

\* The loop is cut off one iteration after the number of tokens: an
\* iteration that moves no cursor would repeat for ever.
IterCap == Len(Tokenize(original)) + Len(Tokenize(corrected)) + 1

\* One iteration of the while loop of enhanceWithPatches.
WalkIteration ==
  /\ phase = "walk"
  /\ WalkContinues(Tokenize(original), Tokenize(corrected), originalIndex, correctedIndex)
  /\ iter < IterCap
  /\ LET s == WalkStep(Tokenize(original), Tokenize(corrected),
                       originalIndex, correctedIndex, changes)
     IN /\ operations' = operations \o s.ops
        /\ originalIndex' = s.oi
        /\ correctedIndex' = s.ci
        /\ hits' = IF s.found THEN hits + 1 ELSE hits
  /\ iter' = iter + 1
  /\ UNCHANGED <<original, corrected, patches, changes, phase, via>>
  /\ UNCHANGED <<dbVars, listVars>>

\* The loop condition is false: return operations.
WalkReturn ==
  /\ phase = "walk"
  /\ ~WalkContinues(Tokenize(original), Tokenize(corrected), originalIndex, correctedIndex)
  /\ phase' = "done"
  /\ UNCHANGED <<original, corrected, patches, changes, originalIndex,
                 correctedIndex, operations, iter, hits, via>>
  /\ UNCHANGED <<dbVars, listVars>>

PatchNext == ReturnBaseDiff \/ EnterEnhance \/ WalkIteration \/ WalkReturn

PatchSpec == PatchInit /\ [][PatchNext]_vars

(***************************************************************************)
(* ChangesSpec: computePatchAwareDiff on longer patch lists and short texts *)
(***************************************************************************)
MaxMapPatches == 3

MaxMapInput == 1

ChangesInit ==
  /\ patches \in UNION {[1..n -> PatchPool] : n \in 0..MaxMapPatches}
  /\ \E p \in TextPairsUpTo(MaxMapInput) : original = p[1] /\ corrected = p[2]
  /\ Idle

ChangesSpec == ChangesInit /\ [][PatchNext]_vars

(***************************************************************************)
(* UiSpec: the viewer renders the title field from the pasted merge output  *)
(***************************************************************************)
MaxApplied == 2

MaxFieldInput == 2

AppliedPatch(path, before, after) == [path |-> path, before |-> before, after |-> after]

\* The entries mergeOutput.applied is drawn from: JSON.parse takes any
\* object, so an entry may lack before or after.
AppliedPool ==
  { AppliedPatch("title", <<"a">>, <<".">>),
    AppliedPatch("title", Absent, <<".">>),
    AppliedPatch("title", <<"a">>, Absent),
    AppliedPatch("lead", <<"a">>, <<".">>),
    AppliedPatch("lead", Absent, <<".">>) }

\* Before the field is rendered, patches holds mergeOutput.applied.
UiInit ==
  /\ patches \in UNION {[1..n -> AppliedPool] : n \in 0..MaxApplied}
  /\ \E p \in TextPairsUpTo(MaxFieldInput) : original = p[1] /\ corrected = p[2]
  /\ phase = "render"
  /\ changes = <<>>
  /\ originalIndex = 0
  /\ correctedIndex = 0
  /\ operations = <<>>
  /\ iter = 0
  /\ hits = 0
  /\ via = "none"
  /\ DbIdle
  /\ ListIdle

ForTitle(patch) == patch.path = "title"

\* FieldDiff: if (!original && !corrected) return [];
RenderEmptyField ==
  /\ phase = "render"
  /\ original = <<>> /\ corrected = <<>>
  /\ patches' = SelectSeq(patches, ForTitle)
  /\ operations' = <<>>
  /\ phase' = "done"
  /\ UNCHANGED <<original, corrected, changes, originalIndex, correctedIndex,
                 iter, hits, via>>
  /\ UNCHANGED <<dbVars, listVars>>

\* FieldDiff with patches = mergeOutput.applied.filter(patch => patch.path === 'title')
\* calls computePatchAwareDiff(original || '', corrected || '', patches).
RenderField ==
  /\ phase = "render"
  /\ ~(original = <<>> /\ corrected = <<>>)
  /\ patches' = SelectSeq(patches, ForTitle)
  /\ phase' = "start"
  /\ UNCHANGED <<original, corrected, changes, originalIndex, correctedIndex,
                 operations, iter, hits, via>>
  /\ UNCHANGED <<dbVars, listVars>>

\* patches.forEach: patch.before.trim() or patch.after.trim() on undefined
\* throws a TypeError; nothing catches it.
ThrowTypeError ==
  /\ phase = "start"
  /\ Len(patches) # 0
  /\ \E i \in 1..Len(patches) : ~HasBothTexts(patches[i])
  /\ phase' = "threw"
  /\ UNCHANGED <<original, corrected, patches, changes, originalIndex,
                 correctedIndex, operations, iter, hits, via>>
  /\ UNCHANGED <<dbVars, listVars>>

UiNext ==
  \/ RenderEmptyField
  \/ RenderField
  \/ ReturnBaseDiff
  \/ ThrowTypeError
  \/ EnterEnhance
  \/ WalkIteration
  \/ WalkReturn

UiSpec == UiInit /\ [][UiNext]_vars

(***************************************************************************)
(* ServerSpec: the handlers of /api/corrections over the corrections store  *)
(***************************************************************************)
MaxPosts == 3

\* req.params.id after parseInt(.., 10): a number, or NaN.
IdParams == (1..(MaxPosts + 1)) \cup {NaN}

ServerInit ==
  /\ original = <<>>
  /\ corrected = <<>>
  /\ patches = <<>>
  /\ Idle

\* db.initDatabase().then(() => { serverReady = true })
InitDatabaseResolved ==
  /\ ~serverReady
  /\ serverReady' = TRUE
  /\ UNCHANGED <<corrections, articles, seq, response, posts, deleted>>
  /\ UNCHANGED <<diffVars, listVars>>

\* schemaHandler.processIncomingData(rawData): it accepts a body, handing it
\* on as result.data, or rejects it.
ProcessIncomingData(rawData) ==
  { [success |-> TRUE, data |-> rawData], [success |-> FALSE, data |-> rawData] }

\* app.post('/api/corrections')
PostCorrection ==
  \E rawData \in RequestPool : \E result \in ProcessIncomingData(rawData) :
    /\ (serverReady /\ result.success) => Len(posts) < MaxPosts
    /\ IF ~serverReady
         THEN /\ response' = Response("POST", 503, 0, NoRecord)
              /\ UNCHANGED <<corrections, articles, seq, posts>>
       ELSE IF ~result.success
         THEN /\ response' = Response("POST", 400, 0, NoRecord)
              /\ UNCHANGED <<corrections, articles, seq, posts>>
       ELSE LET s == SaveCorrection(corrections, articles, seq, result.data)
            IN /\ corrections' = s.corrections
               /\ articles' = s.articles
               /\ seq' = s.seq
               /\ response' = Response("POST", 201, s.id, NoRecord)
               /\ posts' = Append(posts, [id |-> s.id, body |-> rawData])
    /\ UNCHANGED <<serverReady, deleted>>
    /\ UNCHANGED <<diffVars, listVars>>

\* app.get('/api/corrections/:id')
GetCorrectionById ==
  \E id \in IdParams :
    /\ IF ~serverReady
         THEN response' = Response("GET", 503, id, NoRecord)
       ELSE IF id = NaN
         THEN response' = Response("GET", 400, id, NoRecord)
       ELSE LET correction == GetCorrection(corrections, id)
            IN IF ~correction.found
                 THEN response' = Response("GET", 404, id, NoRecord)
                 ELSE response' = Response("GET", 200, id, correction)
    /\ UNCHANGED <<serverReady, corrections, articles, seq, posts, deleted>>
    /\ UNCHANGED <<diffVars, listVars>>

\* app.delete('/api/corrections/:id'): serverReady is not looked at; until
\* initDatabase has set db, db.exec throws and the catch answers 500.
DeleteCorrectionById ==
  \E id \in IdParams :
    /\ IF id = NaN
         THEN /\ response' = Response("DELETE", 400, id, NoRecord)
              /\ UNCHANGED <<corrections, deleted>>
       ELSE IF ~serverReady
         THEN /\ response' = Response("DELETE", 500, id, NoRecord)
              /\ UNCHANGED <<corrections, deleted>>
       ELSE LET r == RemoveCorrection(corrections, id)
            IN IF ~r.removed
                 THEN /\ response' = Response("DELETE", 404, id, NoRecord)
                      /\ UNCHANGED <<corrections, deleted>>
                 ELSE /\ response' = Response("DELETE", 200, id, NoRecord)
                      /\ corrections' = r.corrections
                      /\ deleted' = deleted \cup {id}
    /\ UNCHANGED <<serverReady, articles, seq, posts>>
    /\ UNCHANGED <<diffVars, listVars>>

ServerNext ==
  \/ InitDatabaseResolved
  \/ PostCorrection
  \/ GetCorrectionById
  \/ DeleteCorrectionById

ServerSpec == ServerInit /\ [][ServerNext]_vars

(***************************************************************************)
(* ListSpec: the corrections list view, its selections and its fetches      *)
(***************************************************************************)
MaxClicks == 3

\* What GET /api/corrections may answer: the ids of the corrections listed.
ListPool == {<<>>, <<1>>, <<3, 2, 1>>}

ListInit ==
  /\ original = <<>>
  /\ corrected = <<>>
  /\ patches = <<>>
  /\ Idle

\* fetchCorrections: the list arrives; the first correction is selected when
\* there is one and nothing is selected, and the effect fetches it.
FetchCorrectionsResolved ==
  /\ loading
  /\ \E data \in ListPool :
       /\ correctionsList' = data
       /\ IF Len(data) > 0 /\ selectedId = 0
            THEN /\ selectedId' = data[1]
                 /\ fetches' = EffectSelectedId(fetches, data[1], clicks + 1)
            ELSE UNCHANGED <<selectedId, fetches>>
  /\ loading' = FALSE
  /\ UNCHANGED <<currentCorrection, error, clicks>>
  /\ UNCHANGED <<diffVars, dbVars>>

\* fetchCorrections: the fetch fails or the response is not ok.
FetchCorrectionsFailed ==
  /\ loading
  /\ error' = "corrections"
  /\ loading' = FALSE
  /\ UNCHANGED <<correctionsList, selectedId, currentCorrection, fetches, clicks>>
  /\ UNCHANGED <<diffVars, dbVars>>

\* onClick={() => onSelect(correction.id)} on a correction that is not the
\* selected one: setSelectedId, then the effect.
SelectCorrection ==
  /\ ~loading
  /\ clicks < MaxClicks
  /\ \E i \in 1..Len(correctionsList) :
       /\ correctionsList[i] # selectedId
       /\ selectedId' = correctionsList[i]
       /\ fetches' = EffectSelectedId(fetches, correctionsList[i], clicks + 2)
  /\ clicks' = clicks + 1
  /\ UNCHANGED <<correctionsList, currentCorrection, loading, error>>
  /\ UNCHANGED <<diffVars, dbVars>>

\* fetchCorrection(id): the response arrives: setCurrentCorrection(data),
\* setError('').
FetchCorrectionResolved ==
  /\ \E f \in fetches :
       /\ currentCorrection' = f.id
       /\ fetches' = fetches \ {f}
  /\ error' = ""
  /\ UNCHANGED <<correctionsList, selectedId, loading, clicks>>
  /\ UNCHANGED <<diffVars, dbVars>>

\* fetchCorrection(id): the fetch fails or the response is not ok.
FetchCorrectionFailed ==
  /\ \E f \in fetches : fetches' = fetches \ {f}
  /\ error' = "correction"
  /\ UNCHANGED <<correctionsList, selectedId, currentCorrection, loading, clicks>>
  /\ UNCHANGED <<diffVars, dbVars>>

ListNext ==
  \/ FetchCorrectionsResolved
  \/ FetchCorrectionsFailed
  \/ SelectCorrection
  \/ FetchCorrectionResolved
  \/ FetchCorrectionFailed

ListSpec == ListInit /\ [][ListNext]_vars

(***************************************************************************)
(* Properties of computeWordDiff (Spec)                                     *)
(***************************************************************************)
WordDiffDone == phase = "done" /\ via = "computeWordDiff"

HasOp(ops, type) == \E i \in 1..Len(ops) : ops[i].type = type

\* C1: for all texts a and b, the texts of the equal and delete operations of
\* computeWordDiff(a, b), concatenated in order, are exactly a.
C1_RoundTripOriginal == WordDiffDone => OriginalView(operations) = original

C1_Witness ==
  /\ WordDiffDone
  /\ HasOp(operations, "equal") /\ HasOp(operations, "delete") /\ HasOp(operations, "insert")
  /\ OriginalView(operations) = original

\* C2: for all texts a and b, the texts of the equal and insert operations of
\* computeWordDiff(a, b), concatenated in order, are exactly b.
C2_RoundTripCorrected == WordDiffDone => CorrectedView(operations) = corrected

C2_Witness ==
  /\ WordDiffDone
  /\ HasOp(operations, "equal") /\ HasOp(operations, "insert")
  /\ Len(Tokenize(corrected)) >= 3
  /\ CorrectedView(operations) = corrected

\* Length of a longest common subsequence of two token sequences.
RECURSIVE LCS(_, _)
LCS(a, b) ==
  IF a = <<>> \/ b = <<>> THEN 0
  ELSE IF Head(a) = Head(b) THEN 1 + LCS(Tail(a), Tail(b))
  ELSE LET p == LCS(Tail(a), b)
           q == LCS(a, Tail(b))
       IN IF p >= q THEN p ELSE q

EditCount(ops) == Len(SelectSeq(ops, LAMBDA op : op.type # "equal"))

\* C4: the number of insert plus delete operations of myersDiff(a, b) is the
\* shortest edit distance N + M - 2 * LCS(a, b), and that is the d at which
\* the forward search stopped.
C4_ShortestEditScript ==
  WordDiffDone =>
    LET a == Tokenize(original)
        b == Tokenize(corrected)
        r == ForwardSearch(a, b)
    IN /\ r.found
       /\ EditCount(operations) = Len(a) + Len(b) - 2 * LCS(a, b)
       /\ r.d = EditCount(operations)

C4_Witness ==
  /\ WordDiffDone
  /\ LCS(Tokenize(original), Tokenize(corrected)) = 2
  /\ EditCount(operations) = 3
  /\ ForwardSearch(Tokenize(original), Tokenize(corrected)).d = 3

\* C9: tokenization is lossless: the tokens of a text, joined with no
\* separator, are the text.
C9_TokenizeLossless ==
  /\ Join(Tokenize(original)) = original
  /\ Join(Tokenize(corrected)) = corrected

C9_Witness ==
  /\ WordDiffDone
  /\ Len(Tokenize(original)) = 3
  /\ \E i \in 1..3 : Len(Tokenize(original)[i]) = 2
  /\ Join(Tokenize(original)) = original

\* C10: computeWordDiff(s, s) is one equal operation per token of
\* tokenize(s), in order, and nothing else.
C10_Identity ==
  (WordDiffDone /\ original = corrected) =>
    operations = OpsOf("equal", Tokenize(original))

C10_Witness ==
  /\ WordDiffDone
  /\ original = corrected
  /\ Len(operations) = 4
  /\ \A i \in 1..4 : operations[i].type = "equal"

CountOps(ops, type) == Len(SelectSeq(ops, LAMBDA op : op.type = type))

TokenSet(toks) == {toks[i] : i \in 1..Len(toks)}

NoCommonToken == TokenSet(Tokenize(original)) \cap TokenSet(Tokenize(corrected)) = {}

\* C11: total replacement: when the token sequences a and b have no token in
\* common, myersDiff(a, b) has exactly |a| delete operations, exactly |b|
\* insert operations and no equal operation.
C11_TotalReplacement ==
  (WordDiffDone /\ NoCommonToken) =>
    /\ CountOps(operations, "delete") = Len(Tokenize(original))
    /\ CountOps(operations, "insert") = Len(Tokenize(corrected))
    /\ CountOps(operations, "equal") = 0

C11_Witness ==
  /\ WordDiffDone
  /\ NoCommonToken
  /\ Len(Tokenize(original)) >= 2 /\ Len(Tokenize(corrected)) >= 2
  /\ CountOps(operations, "delete") = Len(Tokenize(original))
  /\ CountOps(operations, "insert") = Len(Tokenize(corrected))
  /\ Len(operations) = Len(Tokenize(original)) + Len(Tokenize(corrected))

\* C12: degenerate inputs: an absent (null or undefined) text tokenizes to the
\* empty sequence; myersDiff([], []) is []; myersDiff([], b) is one insert
\* per token of b, in order, and nothing else; myersDiff(a, []) is one delete
\* per token of a, in order, and nothing else.
C12_DegenerateInputs ==
  /\ original = Absent => Tokenize(original) = <<>>
  /\ corrected = Absent => Tokenize(corrected) = <<>>
  /\ WordDiffDone =>
       LET a == Tokenize(original)
           b == Tokenize(corrected)
       IN /\ (a = <<>> /\ b = <<>>) => operations = <<>>
          /\ a = <<>> => operations = OpsOf("insert", b)
          /\ b = <<>> => operations = OpsOf("delete", a)

C12_Witness ==
  /\ WordDiffDone
  /\ original = Absent
  /\ Len(Tokenize(corrected)) = 3
  /\ operations = OpsOf("insert", Tokenize(corrected))
  /\ operations[1].text # operations[3].text

\* The text "x y" over the characters of the model: two different words with
\* one blank between them.
XY == <<"a", " ", "a", "a">>

EmptyAgainstXY == WordDiffDone /\ Tokenize(original) = <<>> /\ corrected = XY

\* C13 as claimed: diff([], tokenize("x y")) returns two insert operations
\* and no others.
C13_TwoInserts ==
  EmptyAgainstXY =>
    /\ Len(operations) = 2
    /\ \A i \in 1..Len(operations) : operations[i].type = "insert"

\* C13 as amended: diff([], tokenize("x y")) returns three insert operations
\* and no others: the first word, the blank, the second word, in that order.
C13_ThreeInserts ==
  EmptyAgainstXY =>
    operations = <<Op("insert", <<"a">>), Op("insert", <<" ">>), Op("insert", <<"a", "a">>)>>

C13_Witness ==
  /\ EmptyAgainstXY
  /\ original = <<>>
  /\ Len(operations) = 3
  /\ operations[2] = Op("insert", <<" ">>)

IsWhitespaceRun(t) == Len(t) > 0 /\ \A i \in 1..Len(t) : IsSpace(t[i])

IsPunctuationToken(t) == Len(t) = 1 /\ IsPunct(t[1])

IsWordToken(t) == Len(t) > 0 /\ \A i \in 1..Len(t) : ~IsSpace(t[i]) /\ ~IsPunct(t[i])

ShapesOf(t) ==
  (IF IsWhitespaceRun(t) THEN {"whitespace"} ELSE {})
    \cup (IF IsPunctuationToken(t) THEN {"punctuation"} ELSE {})
    \cup (IF IsWordToken(t) THEN {"word"} ELSE {})

TokenShape(toks) ==
  /\ \A i \in 1..Len(toks) : Len(toks[i]) > 0 /\ Cardinality(ShapesOf(toks[i])) = 1
  /\ \A i \in 1..(Len(toks) - 1) :
       /\ ~(IsWordToken(toks[i]) /\ IsWordToken(toks[i + 1]))
       /\ ~(IsWhitespaceRun(toks[i]) /\ IsWhitespaceRun(toks[i + 1]))

\* C14: token shape: every token of tokenize is non-empty and is exactly one
\* of a maximal run of whitespace, a single punctuation character, or a word
\* with no whitespace and no punctuation character; no two adjacent tokens
\* are both words and no two adjacent tokens are both whitespace runs.
C14_TokenShape ==
  /\ TokenShape(Tokenize(original))
  /\ TokenShape(Tokenize(corrected))

C14_Witness ==
  /\ WordDiffDone
  /\ Len(Tokenize(original)) = 3
  /\ {ShapesOf(Tokenize(original)[i]) : i \in 1..3} = {{"whitespace"}, {"punctuation"}, {"word"}}
  /\ \E i \in 1..3 : IsWhitespaceRun(Tokenize(original)[i]) /\ Len(Tokenize(original)[i]) = 2
  /\ TokenShape(Tokenize(original))

(***************************************************************************)
(* Properties of computePatchAwareDiff (PatchSpec)                          *)
(***************************************************************************)
EnhanceDone == phase = "done" /\ via = "enhanceWithPatches"

\* C3: whenever the patch-aware path returns, the equal and delete texts
\* concatenate to original and the equal and insert texts to corrected.
C3_PatchAwareRoundTrip ==
  EnhanceDone =>
    /\ OriginalView(operations) = original
    /\ CorrectedView(operations) = corrected

C3_Witness ==
  /\ EnhanceDone
  /\ Len(changes) = 2
  /\ hits >= 1
  /\ HasOp(operations, "equal") /\ HasOp(operations, "delete") /\ HasOp(operations, "insert")
  /\ OriginalView(operations) = original
  /\ CorrectedView(operations) = corrected

\* C5: the walk terminates for every input: no iteration leaves the cursors
\* and the operations as they were (the loop would then repeat for ever),
\* and the loop ends with both cursors at the end of their token sequences.
C5_WalkTerminates ==
  LET oT == Tokenize(original)
      cT == Tokenize(corrected)
  IN /\ (phase = "walk" /\ WalkContinues(oT, cT, originalIndex, correctedIndex)) =>
          LET s == WalkStep(oT, cT, originalIndex, correctedIndex, changes)
          IN s.oi # originalIndex \/ s.ci # correctedIndex \/ s.ops # <<>>
     /\ EnhanceDone => (originalIndex = Len(oT) /\ correctedIndex = Len(cT))

\* pat sits in toks at token position q, token by token.
TokensAt(toks, q, pat) ==
  /\ q + Len(pat) <= Len(toks)
  /\ SubSeq(toks, q + 1, q + Len(pat)) = pat

\* original and corrected are the same tokens except that bt at position p of
\* original is at at position p of corrected, and neither matches before p.
SingleEditAt(oT, cT, bt, at, p) ==
  /\ p <= Len(oT) /\ p <= Len(cT)
  /\ SubSeq(oT, 1, p) = SubSeq(cT, 1, p)
  /\ TokensAt(oT, p, bt)
  /\ TokensAt(cT, p, at)
  /\ SubSeq(oT, p + Len(bt) + 1, Len(oT)) = SubSeq(cT, p + Len(at) + 1, Len(cT))
  /\ \A q \in 0..(p - 1) : ~TokensAt(oT, q, bt) /\ ~TokensAt(cT, q, at)

\* The output, once returned or once it is long enough, starts with p equal
\* operations, then one delete per token of bt immediately followed by one
\* insert per token of at.
SurfacedAt(bt, at, p) ==
  (phase = "done" \/ Len(operations) >= p + Len(bt) + Len(at)) =>
    /\ Len(operations) >= p + Len(bt) + Len(at)
    /\ SubSeq(operations, 1, p) = OpsOf("equal", SubSeq(Tokenize(original), 1, p))
    /\ SubSeq(operations, p + 1, p + Len(bt) + Len(at))
         = OpsOf("delete", bt) \o OpsOf("insert", at)

SinglePatchWalk == via = "enhanceWithPatches" /\ Len(patches) = 1 /\ Len(changes) = 1

\* C6 as claimed, with before and after as the patch gives them: with a single
\* patch that is not a no-op, if original and corrected differ only by
\* tokenize(before) at position p being tokenize(after), and neither matches
\* before p, the output has one delete per before-token immediately followed
\* by one insert per after-token at that point.
C6_PatchSurfacingAsGiven ==
  SinglePatchWalk =>
    LET oT == Tokenize(original)
        cT == Tokenize(corrected)
        bt == Tokenize(patches[1].before)
        at == Tokenize(patches[1].after)
    IN \A p \in 0..Len(oT) :
         SingleEditAt(oT, cT, bt, at, p) => SurfacedAt(bt, at, p)

\* C6 as amended, with before and after trimmed as the Change Set holds them:
\* if original and corrected differ only by tokenize(trim(before)) at position
\* p being tokenize(trim(after)), and neither matches before p, the output is
\* p equal operations, then one delete per before-token immediately followed
\* by one insert per after-token.
C6_PatchSurfacing ==
  SinglePatchWalk =>
    LET oT == Tokenize(original)
        cT == Tokenize(corrected)
        bt == Tokenize(changes[1][1])
        at == Tokenize(changes[1][2])
    IN \A p \in 0..Len(oT) :
         SingleEditAt(oT, cT, bt, at, p) => SurfacedAt(bt, at, p)

C6_Witness ==
  /\ EnhanceDone
  /\ Len(patches) = 1 /\ Len(changes) = 1
  /\ Tokenize(changes[1][1]) # <<>> /\ Tokenize(changes[1][2]) # <<>>
  /\ SingleEditAt(Tokenize(original), Tokenize(corrected),
                  Tokenize(changes[1][1]), Tokenize(changes[1][2]), 1)
  /\ SubSeq(operations, 2, 3)
       = OpsOf("delete", Tokenize(changes[1][1])) \o OpsOf("insert", Tokenize(changes[1][2]))

IsNoOp(patch) == Trim(patch.before) = Trim(patch.after)

\* C7: a patch whose trimmed before equals its trimmed after never enters the
\* Change Set, and a patch list of such patches only gives exactly the
\* operations of computeWordDiff(original, corrected).
C7_NoOpPatchesIgnored ==
  /\ \A i \in 1..Len(changes) : changes[i][1] # changes[i][2]
  /\ (phase = "done" /\ \A i \in 1..Len(patches) : IsNoOp(patches[i])) =>
       operations = ComputeWordDiff(original, corrected)

\* Plain positional comparison of two token sequences.
RECURSIVE PositionalDiff(_, _)
PositionalDiff(a, b) ==
  IF a = <<>> /\ b = <<>> THEN <<>>
  ELSE IF a = <<>> THEN <<Op("insert", Head(b))>> \o PositionalDiff(a, Tail(b))
  ELSE IF b = <<>> THEN <<Op("delete", Head(a))>> \o PositionalDiff(Tail(a), b)
  ELSE IF Head(a) = Head(b)
    THEN <<Op("equal", Head(a))>> \o PositionalDiff(Tail(a), Tail(b))
  ELSE <<Op("delete", Head(a)), Op("insert", Head(b))>> \o PositionalDiff(Tail(a), Tail(b))

NoPatchApplied == EnhanceDone /\ changes # <<>> /\ hits = 0

\* C8 as claimed: when the Change Set is not empty and no entry matched at any
\* cursor position of the walk, the result is the Myers engine's.
C8_FallbackIsMyers ==
  NoPatchApplied => operations = ComputeWordDiff(original, corrected)

\* C8 as amended: in that case the result is the plain positional comparison
\* of the two token sequences; it is the Myers engine's result when the token
\* sequences are equal or one of them is empty.
C8_FallbackIsPositional ==
  NoPatchApplied =>
    LET oT == Tokenize(original)
        cT == Tokenize(corrected)
    IN /\ operations = PositionalDiff(oT, cT)
       /\ (oT = cT \/ oT = <<>> \/ cT = <<>>) =>
            operations = ComputeWordDiff(original, corrected)

C8_Witness ==
  /\ NoPatchApplied
  /\ HasOp(operations, "equal") /\ HasOp(operations, "delete") /\ HasOp(operations, "insert")
  /\ operations = PositionalDiff(Tokenize(original), Tokenize(corrected))
  /\ operations # ComputeWordDiff(original, corrected)

\* The three ways a Change Set entry can match at cursors oi and ci.
FullMatch(oT, cT, oi, ci, entry) ==
  StartsAt(oT, oi, Tokenize(entry[1])) /\ StartsAt(cT, ci, Tokenize(entry[2]))

InsertionOnlyMatch(oT, cT, oi, ci, entry) ==
  StartsAt(cT, ci, Tokenize(entry[2])) /\ AbsentAt(oT, oi, Tokenize(entry[2]))

DeletionOnlyMatch(oT, cT, oi, ci, entry) ==
  StartsAt(oT, oi, Tokenize(entry[1])) /\ AbsentAt(cT, ci, Tokenize(entry[1]))

\* The walk is about to run the body of its loop.
AtCursor ==
  /\ phase = "walk"
  /\ WalkContinues(Tokenize(original), Tokenize(corrected), originalIndex, correctedIndex)

\* C15: at every cursor position the patch rules are applied in strict
\* priority order over the whole Change Set: if any entry has a full
\* substitution match, a full substitution is emitted; an insertion-only match
\* is taken only when no entry has a full substitution match, and a
\* deletion-only match only when no entry has a full or insertion-only match.
C15_StrictPriority ==
  AtCursor =>
    LET oT == Tokenize(original)
        cT == Tokenize(corrected)
        oi == originalIndex
        ci == correctedIndex
        r  == TryChanges(oT, cT, oi, ci, changes, 1)
        anyFull   == \E i \in 1..Len(changes) : FullMatch(oT, cT, oi, ci, changes[i])
        anyInsert == \E i \in 1..Len(changes) : InsertionOnlyMatch(oT, cT, oi, ci, changes[i])
    IN /\ anyFull => r.kind = "full"
       /\ r.kind = "insert" => ~anyFull
       /\ r.kind = "delete" => ~anyFull /\ ~anyInsert

\* The entries with a full substitution match at the cursors.
FullMatches(oT, cT, oi, ci) ==
  {i \in 1..Len(changes) : FullMatch(oT, cT, oi, ci, changes[i])}

AnyMatch(oT, cT, oi, ci, entry) ==
  \/ FullMatch(oT, cT, oi, ci, entry)
  \/ InsertionOnlyMatch(oT, cT, oi, ci, entry)
  \/ DeletionOnlyMatch(oT, cT, oi, ci, entry)

\* Several entries have a full match and none before the first of them
\* matches in any mode.
SeveralFullMatches(oT, cT, oi, ci) ==
  /\ Cardinality(FullMatches(oT, cT, oi, ci)) >= 2
  /\ \A j \in 1..Len(changes) :
       (\A i \in FullMatches(oT, cT, oi, ci) : j < i) => ~AnyMatch(oT, cT, oi, ci, changes[j])

FirstOf(S) == CHOOSE i \in S : \A j \in S : i <= j

\* C16: first match wins: when several entries have a full substitution match
\* at the cursors and no entry before the first of them matches in any mode,
\* the step emits the deletes and inserts of the earliest of them and nothing
\* else, and both cursors advance past exactly its spans.
C16_FirstMatchWins ==
  AtCursor =>
    LET oT == Tokenize(original)
        cT == Tokenize(corrected)
        oi == originalIndex
        ci == correctedIndex
    IN SeveralFullMatches(oT, cT, oi, ci) =>
         LET e  == changes[FirstOf(FullMatches(oT, cT, oi, ci))]
             bt == Tokenize(e[1])
             at == Tokenize(e[2])
             s  == WalkStep(oT, cT, oi, ci, changes)
         IN /\ s.found
            /\ s.ops = OpsOf("delete", bt) \o OpsOf("insert", at)
            /\ s.oi = oi + Len(bt)
            /\ s.ci = ci + Len(at)

\* Both entries of the Change Set matched in full at the start, they would
\* emit different operations, and the walk has emitted those of the first.
C16_Witness ==
  /\ via = "enhanceWithPatches" /\ iter >= 1
  /\ Len(changes) = 2
  /\ LET oT == Tokenize(original)
         cT == Tokenize(corrected)
         first  == OpsOf("delete", Tokenize(changes[1][1])) \o OpsOf("insert", Tokenize(changes[1][2]))
         second == OpsOf("delete", Tokenize(changes[2][1])) \o OpsOf("insert", Tokenize(changes[2][2]))
     IN /\ FullMatch(oT, cT, 0, 0, changes[1])
        /\ FullMatch(oT, cT, 0, 0, changes[2])
        /\ first # second
        /\ Len(operations) >= Len(first)
        /\ SubSeq(operations, 1, Len(first)) = first
        /\ iter = 1 => (originalIndex = Len(Tokenize(changes[1][1]))
                         /\ correctedIndex = Len(Tokenize(changes[1][2])))

\* The patches that are not no-ops, by index, and what they set.
KeptPatches == {i \in 1..Len(patches) : ~IsNoOp(patches[i])}

KeyOf(i) == Trim(patches[i].before)

FirstWith(key) == CHOOSE i \in KeptPatches :
  KeyOf(i) = key /\ \A j \in KeptPatches : KeyOf(j) = key => i <= j

LastWith(key) == CHOOSE i \in KeptPatches :
  KeyOf(i) = key /\ \A j \in KeptPatches : KeyOf(j) = key => j <= i

AtChangeSetConstruction == phase = "start" /\ Len(patches) # 0

\* C18: every patch entry that reaches Change Set construction has both
\* before and after present as strings, the callers having filtered out
\* malformed entries, and computePatchAwareDiff never throws for a patch list
\* the viewer passes to it.
C18_NoMalformedPatch ==
  /\ AtChangeSetConstruction => \A i \in 1..Len(patches) : HasBothTexts(patches[i])
  /\ phase # "threw"

(***************************************************************************)
(* Properties of the corrections API (ServerSpec)                           *)
(***************************************************************************)
\* The ids POSTs have returned that no DELETE has removed.
LiveIds == {posts[k].id : k \in 1..Len(posts)} \ deleted

DistinctIds == \A j, k \in 1..Len(posts) : j # k => posts[j].id # posts[k].id

\* The last response is the GET of a posted id that has not been deleted.
GetOfLive(k) == response.op = "GET" /\ response.id = posts[k].id /\ posts[k].id \notin deleted

\* The record has the four fields of the body.
SameFields(record, body) ==
  /\ record.original_article = body.original_article
  /\ record.corrected_article = body.corrected_article
  /\ record.applied = body.applied
  /\ record.unapplied = body.unapplied

ArticleAsStored(a) ==
  IF ~a.present THEN EmptyObject
  ELSE IF a.body.t = "string" /\ a.body.v \in DOMAIN JsonParse
    THEN Article(a.url, JsonParse[a.body.v])
  ELSE a

ListAsStored(x) == IF x.t = "array" THEN x ELSE Arr("")

BodyAsStored(body) ==
  Request(ArticleAsStored(body.original_article), ArticleAsStored(body.corrected_article),
          ListAsStored(body.applied), ListAsStored(body.unapplied))

C20_DeleteRemovesExactlyThat ==
  /\ {r.id : r \in corrections} = LiveIds
  /\ \A k \in 1..Len(posts) :
       LET c == GetCorrection(corrections, posts[k].id)
       IN IF posts[k].id \in deleted
            THEN ~c.found
            ELSE c.found /\ SameFields(c, BodyAsStored(posts[k].body))
  /\ (response.op = "GET" /\ response.id \in deleted) => response.status = 404
  /\ (response.op = "DELETE" /\ response.id # NaN) =>
       /\ response.status \in {200, 404}
       /\ response.status = 200 => response.id \in deleted
       /\ response.status = 404 => response.id \notin LiveIds

(***************************************************************************)
(* Further properties of the walk (PatchSpec)                               *)
(***************************************************************************)
NoEntryMatches(oT, cT, oi, ci) ==
  \A i \in 1..Len(changes) : ~AnyMatch(oT, cT, oi, ci, changes[i])

\* C21: when no Change Set entry matches at the cursors, the step is the
\* plain positional comparison: both current tokens exist and are equal: one
\* equal, both cursors advance; else original exhausted: one insert of the
\* corrected token, correctedIndex alone advances; else corrected exhausted:
\* one delete of the original token, originalIndex alone advances; otherwise
\* one delete immediately followed by one insert, both cursors advance.
C21_PlainComparison ==
  AtCursor =>
    LET oT == Tokenize(original)
        cT == Tokenize(corrected)
        oi == originalIndex
        ci == correctedIndex
        s  == WalkStep(oT, cT, oi, ci, changes)
    IN NoEntryMatches(oT, cT, oi, ci) =>
         IF oi < Len(oT) /\ ci < Len(cT) /\ oT[oi + 1] = cT[ci + 1]
           THEN s.ops = <<Op("equal", oT[oi + 1])>> /\ s.oi = oi + 1 /\ s.ci = ci + 1
         ELSE IF oi >= Len(oT)
           THEN s.ops = <<Op("insert", cT[ci + 1])>> /\ s.oi = oi /\ s.ci = ci + 1
         ELSE IF ci >= Len(cT)
           THEN s.ops = <<Op("delete", oT[oi + 1])>> /\ s.oi = oi + 1 /\ s.ci = ci
         ELSE /\ s.ops = <<Op("delete", oT[oi + 1]), Op("insert", cT[ci + 1])>>
              /\ s.oi = oi + 1 /\ s.ci = ci + 1

\* A walk with a Change Set none of whose entries ever matched, after a
\* delete+insert step, an equal step and an insert of the last corrected token.
C21_Witness ==
  /\ EnhanceDone /\ changes # <<>> /\ hits = 0 /\ iter = 3
  /\ Len(Tokenize(original)) = 2 /\ Len(Tokenize(corrected)) = 3
  /\ operations = <<Op("delete", Tokenize(original)[1]), Op("insert", Tokenize(corrected)[1]),
                    Op("equal", Tokenize(original)[2]), Op("insert", Tokenize(corrected)[3])>>

(***************************************************************************)
(* Further properties of myersDiff (Spec)                                   *)
(***************************************************************************)
\* C22: the forward search of myersDiff always returns through buildPath at
\* some d <= N + M, and the point at which the test x >= N && y >= M fires is
\* exactly x = N, y = M; the return [] after the loop is never reached.
C22_SearchEndsAtCorner ==
  WordDiffDone =>
    LET a == Tokenize(original)
        b == Tokenize(corrected)
        r == ForwardSearch(a, b)
    IN /\ r.found
       /\ r.d <= Len(a) + Len(b)
       /\ r.x = Len(a)
       /\ r.y = Len(b)

C22_Witness ==
  /\ WordDiffDone
  /\ Len(Tokenize(original)) >= 2 /\ Len(Tokenize(corrected)) >= 2
  /\ HasOp(operations, "equal")
  /\ LET r == ForwardSearch(Tokenize(original), Tokenize(corrected))
     IN /\ r.found /\ r.d = 3
        /\ r.x = Len(Tokenize(original)) /\ r.y = Len(Tokenize(corrected))

\* The points one diagonal move after another leads to from p: a diagonal
\* move exists at (x, y) when x < N, y < M and a[x] = b[y].
RECURSIVE Slide(_, _, _)
Slide(a, b, p) ==
  IF p[1] < Len(a) /\ p[2] < Len(b) /\ a[p[1] + 1] = b[p[2] + 1]
    THEN {p} \cup Slide(a, b, <<p[1] + 1, p[2] + 1>>)
    ELSE {p}

SlideAll(a, b, P) == UNION {Slide(a, b, p) : p \in P}

\* The points reachable from (0, 0) with exactly d non-diagonal moves.
RECURSIVE Reach(_, _, _)
Reach(a, b, d) ==
  IF d = 0 THEN Slide(a, b, <<0, 0>>)
  ELSE LET P == Reach(a, b, d - 1)
       IN SlideAll(a, b, {<<p[1] + 1, p[2]>> : p \in P} \cup {<<p[1], p[2] + 1>> : p \in P})

\* The diagonals of round d up to last: -d, -d + 2, ...
Diagonals(d, last) == {k \in (-d)..last : (k + d) % 2 = 0}

\* The largest x of a point of P on diagonal k.
FurthestOn(P, k) == MaxOf({p[1] : p \in {q \in P : q[1] - q[2] = k}})

\* v holds, on every diagonal of round d up to last, the largest x reachable
\* with exactly d non-diagonal moves.
FurthestReaching(a, b, v, d, last) ==
  LET P == Reach(a, b, d)
  IN \A k \in Diagonals(d, last) :
       /\ k \in DOMAIN v
       /\ \E p \in P : p[1] - p[2] = k
       /\ v[k] = FurthestOn(P, k)

\* C23: furthest-reaching invariant: after the forward search has processed
\* diagonal k of round d, v[k] is the largest x such that (x, x - k) is
\* reachable from (0, 0) with exactly d non-diagonal moves, diagonal moves
\* being free and existing only where a[x] = b[y] inside the grid; the
\* snapshot trace[d] holds these values for round d - 1.
C23_FurthestReaching ==
  WordDiffDone =>
    LET a == Tokenize(original)
        b == Tokenize(corrected)
        r == ForwardSearch(a, b)
    IN /\ Len(r.trace) = r.d + 1
       /\ FurthestReaching(a, b, r.v, r.d, r.k)
       /\ \A d \in 1..r.d : FurthestReaching(a, b, r.trace[d + 1], d - 1, d - 1)

C23_Witness ==
  /\ WordDiffDone
  /\ LET a == Tokenize(original)
         b == Tokenize(corrected)
         r == ForwardSearch(a, b)
     IN /\ r.d = 3 /\ r.k >= 1
        /\ \E k \in Diagonals(2, 0) : r.trace[4][k] >= 2 /\ r.trace[4][k] > r.trace[3][k + 1]
        /\ FurthestReaching(a, b, r.trace[4], 2, 2)
        /\ FurthestReaching(a, b, r.v, 3, r.k)

(***************************************************************************)
(* Further properties of the walk of enhanceWithPatches (PatchSpec)         *)
(***************************************************************************)
\* The tokens the operations so far show on the original side, and on the
\* corrected side.
OriginalTokensShown(ops) == Texts(SelectSeq(ops, ShownInOriginal))
CorrectedTokensShown(ops) == Texts(SelectSeq(ops, ShownInCorrected))

\* C24: loop invariant of the walk: at the start of every iteration, whether
\* or not the loop ever ends, both cursors lie within their token sequences,
\* the texts of the equal and delete operations pushed so far are exactly
\* originalTokens[0..originalIndex) in order, and the texts of the equal and
\* insert operations are exactly correctedTokens[0..correctedIndex) in order.
C24_WalkInvariant ==
  phase = "walk" =>
    LET oT == Tokenize(original)
        cT == Tokenize(corrected)
    IN /\ 0 <= originalIndex /\ originalIndex <= Len(oT)
       /\ 0 <= correctedIndex /\ correctedIndex <= Len(cT)
       /\ OriginalTokensShown(operations) = Slice(oT, 0, originalIndex)
       /\ CorrectedTokensShown(operations) = Slice(cT, 0, correctedIndex)

C24_Witness ==
  /\ phase = "walk"
  /\ iter = 2 /\ hits = 1
  /\ HasOp(operations, "equal") /\ HasOp(operations, "delete") /\ HasOp(operations, "insert")
  /\ LET oT == Tokenize(original)
         cT == Tokenize(corrected)
     IN /\ 0 < correctedIndex /\ correctedIndex < originalIndex
        /\ OriginalTokensShown(operations) = Slice(oT, 0, originalIndex)
        /\ CorrectedTokensShown(operations) = Slice(cT, 0, correctedIndex)

\* Every Change Set entry has a non-empty tokenized before and after.
EntriesNonEmpty ==
  \A i \in 1..Len(changes) :
    Tokenize(changes[i][1]) # <<>> /\ Tokenize(changes[i][2]) # <<>>

\* C25: if every Change Set entry has a non-empty tokenized before and a
\* non-empty tokenized after, every iteration of the walk strictly increases
\* originalIndex + correctedIndex, so the walk ends after at most
\* |originalTokens| + |correctedTokens| iterations.
C25_WalkBounded ==
  (via = "enhanceWithPatches" /\ EntriesNonEmpty) =>
    LET oT == Tokenize(original)
        cT == Tokenize(corrected)
    IN /\ AtCursor =>
            LET s == WalkStep(oT, cT, originalIndex, correctedIndex, changes)
            IN s.oi + s.ci > originalIndex + correctedIndex
       /\ iter <= originalIndex + correctedIndex
       /\ iter <= Len(oT) + Len(cT)

C25_Witness ==
  /\ EnhanceDone
  /\ EntriesNonEmpty
  /\ Len(changes) = 2
  /\ hits >= 1
  /\ iter >= 2
  /\ iter < originalIndex + correctedIndex
  /\ originalIndex = Len(Tokenize(original))
  /\ correctedIndex = Len(Tokenize(corrected))

(***************************************************************************)
(* Further properties of buildPath (Spec)                                   *)
(***************************************************************************)
\* i is an index of arr, 0-based.
InBounds(arr, i) == 0 <= i /\ i < Len(arr)

\* What one pass of the loop of buildPath looks up, reads and does at D with
\* the cursors at (x, y): the snapshot and the entry it looks up exist, the
\* previous point lies between (0, 0) and (x, y), every token read exists,
\* every equal is over equal tokens, and the pass leaves the cursors on the
\* previous point, one non-diagonal move away from the end of the snake.
BackStepSafe(a, b, trace, D, x, y) ==
  /\ D + 1 <= Len(trace)
  /\ LET v     == trace[D + 1]
         k     == x - y
         prevK == IF FromAbove(v, D, k) THEN k + 1 ELSE k - 1
         prevX == Get(v, prevK)
         prevY == Minus(prevX, prevK)
         e     == EqualRun(a, x, y, prevX, prevY, <<>>)
         s     == BackStep(a, b, trace, D, x, y, <<>>)
     IN /\ prevK \in DOMAIN v
        /\ prevX # NaN
        /\ D > 0 => /\ 0 <= prevX /\ prevX <= x
                    /\ 0 <= prevY /\ prevY <= y
        /\ \A i \in (e.x + 1)..x :
             /\ InBounds(a, i - 1)
             /\ InBounds(b, i - k - 1)
             /\ a[i] = b[i - k]
        /\ Len(e.ops) = x - e.x
        /\ x - e.x = y - e.y
        /\ D > 0 =>
             /\ \/ e.x = prevX + 1 /\ e.y = prevY /\ InBounds(a, e.x - 1)
                \/ e.x = prevX /\ e.y = prevY + 1 /\ InBounds(b, e.y - 1)
             /\ s.x = prevX /\ s.y = prevY
        /\ D = 0 => s.x = 0 /\ s.y = 0

\* Every pass from D down to 0 is safe.
RECURSIVE BackSafeFrom(_, _, _, _, _, _)
BackSafeFrom(a, b, trace, D, x, y) ==
  \/ D < 0
  \/ /\ BackStepSafe(a, b, trace, D, x, y)
     /\ LET s == BackStep(a, b, trace, D, x, y, <<>>)
        IN BackSafeFrom(a, b, trace, D - 1, s.x, s.y)

\* C26: backtracking is index-safe and consistent with the forward pass: for
\* every D from d down to 0 the looked-up trace[D][prevK] is defined; for
\* D > 0 it satisfies 0 <= prevX <= x and 0 <= prevY <= y, with exactly one of
\* x, y decreased by one for the non-diagonal move; every read a[x - 1] or
\* b[y - 1] is within bounds; every equal pushed has a[x - 1] = b[y - 1]; and
\* the loop ends with x = 0 and y = 0.
C26_BacktrackingSafe ==
  WordDiffDone =>
    LET a == Tokenize(original)
        b == Tokenize(corrected)
        r == ForwardSearch(a, b)
        p == BuildFrom(a, b, r.trace, r.d, Len(a), Len(b), <<>>)
    IN /\ r.found
       /\ BackSafeFrom(a, b, r.trace, r.d, Len(a), Len(b))
       /\ p.x = 0 /\ p.y = 0
       /\ p.ops = operations

C26_Witness ==
  /\ WordDiffDone
  /\ HasOp(operations, "equal") /\ HasOp(operations, "delete") /\ HasOp(operations, "insert")
  /\ LET a == Tokenize(original)
         b == Tokenize(corrected)
         r == ForwardSearch(a, b)
         p == BuildFrom(a, b, r.trace, r.d, Len(a), Len(b), <<>>)
     IN /\ r.d = 4
        /\ BackSafeFrom(a, b, r.trace, r.d, Len(a), Len(b))
        /\ p.x = 0 /\ p.y = 0

(***************************************************************************)
(* Further properties of the backend (ServerSpec)                           *)
(***************************************************************************)
\* C27: no request handler performs a database operation before initDatabase
\* has completed: every request to a data endpoint, DELETE
\* /api/corrections/:id included, that arrives while serverReady is false is
\* answered 503 and leaves the database untouched.
C27_NotReadyAnswers503 ==
  ~serverReady =>
    /\ response.op # "none" => response.status = 503
    /\ corrections = {} /\ posts = <<>> /\ deleted = {}

\* The url a saved body is filed under: originalArticle.url, "" for none.
SavedUrl(body) == ParseBody(OrEmptyObject(body.original_article)).url

\* The urls of the bodies saved so far, removed corrections included.
UrlsEverSaved == {SavedUrl(posts[k].body) : k \in 1..Len(posts)} \ {""}

\* The last saved body with the url.
LastSavedWith(url) ==
  LET k == CHOOSE i \in 1..Len(posts) :
             /\ SavedUrl(posts[i].body) = url
             /\ \A j \in (i + 1)..Len(posts) : SavedUrl(posts[j].body) # url
  IN posts[k].body

\* The stored corrections of one url have run numbers that are pairwise
\* distinct and increase with the order of insertion (the order of the ids).
RunNumbersIncrease ==
  \A r1, r2 \in corrections :
    (r1.article_url = r2.article_url /\ r1.article_url # "" /\ r1.id < r2.id)
      => r1.run_number < r2.run_number

\* One row of articles for every url ever saved, holding the original article
\* of the last save with that url.
OneArticlePerUrl ==
  /\ {a.url : a \in articles} = UrlsEverSaved
  /\ Cardinality(articles) = Cardinality(UrlsEverSaved)
  /\ \A a \in articles :
       a.original_article =
         Stringify(ParseBody(OrEmptyObject(LastSavedWith(a.url).original_article)))

\* C29: after any sequence of saveCorrection and removeCorrection calls, for
\* every article url the stored corrections with that url have pairwise
\* distinct run_number values that increase with insertion order, and the
\* articles table holds exactly one row for each url that was ever saved:
\* removing a correction never removes or alters its article row.
C29_RunNumbersAndArticles == RunNumbersIncrease /\ OneArticlePerUrl

C29_Witness ==
  /\ Len(posts) = 3
  /\ SavedUrl(posts[1].body) = "u1"
  /\ SavedUrl(posts[2].body) = "u1"
  /\ SavedUrl(posts[3].body) = "u1"
  /\ deleted = {posts[2].id}
  /\ {r.run_number : r \in corrections} = {1, 2}
  /\ Cardinality(corrections) = 2
  /\ Cardinality(articles) = 1
  /\ RunNumbersIncrease

(***************************************************************************)
(* The joined-string comparison of enhanceWithPatches (Spec)                *)
(***************************************************************************)
\* The contiguous slices of a token sequence.
SlicesOf(toks) == {Slice(toks, i, j) : i \in 0..Len(toks), j \in 0..Len(toks)}

\* C30: the joined-string comparison is equivalent to the exact
\* token-sequence match: for every slice S of tokenize(text) and every string
\* p with |S| = |tokenize(p)|, S.join('') = tokenize(p).join('') if and only
\* if S equals tokenize(p) token by token; equivalently tokenize(S.join(''))
\* = S for every contiguous slice S of a tokenization.
C30_JoinedComparisonIsTokenMatch ==
  WordDiffDone =>
    LET pT == Tokenize(corrected)
    IN \A S \in SlicesOf(Tokenize(original)) :
         /\ Tokenize(Join(S)) = S
         /\ Len(S) = Len(pT) => ((Join(S) = Join(pT)) <=> (S = pT))

C30_Witness ==
  /\ WordDiffDone
  /\ Len(Tokenize(original)) = 3
  /\ Len(Tokenize(corrected)) = 2
  /\ \E i \in 1..2 : Len(Tokenize(corrected)[i]) = 2
  /\ Len(original) > Len(corrected)
  /\ \E S \in SlicesOf(Tokenize(original)) :
       /\ S # Tokenize(original)
       /\ Join(S) = Join(Tokenize(corrected))
       /\ S = Tokenize(corrected)
  /\ \E S \in SlicesOf(Tokenize(original)) :
       /\ Len(S) = 2
       /\ Join(S) # Join(Tokenize(corrected))

(***************************************************************************)
(* Properties of the corrections list view (ListSpec)                       *)
(***************************************************************************)
\* The list has arrived and no fetchCorrection awaits its response.
Quiescent == ~loading /\ fetches = {}

\* C28: in the corrections list view, once all outstanding fetches have
\* completed, the correction shown is the one for the selected id: for any
\* sequence of selections and any order of arrival of the responses (none of
\* them leaving an error shown), currentCorrection.id equals selectedId.
C28_ShowsSelected ==
  (Quiescent /\ selectedId # 0 /\ error = "") => currentCorrection = selectedId

====
